---------------------------- MODULE Spec2Model ----------------------------
(***************************************************************************)
(* Model of package debughttp (src/debughttp.go): the redaction engine     *)
(* (cleanAuth, cleanAuths) and the logging round tripper                   *)
(* (Transport.RoundTrip).                                                  *)
(*                                                                         *)
(* A byte buffer ([]byte) is a sequence of byte values (ASCII codes).  Go  *)
(* indexes are 0-based, sequences here are 1-based: Go's buf[i] is         *)
(* buf[i + 1], Go's buf[a:b] is SubSeq(buf, a + 1, b).                     *)
(***************************************************************************)
EXTENDS Integers, Sequences, FiniteSets

VARIABLES
    optArg,     \* the *Options handed to New
    opt,        \* Transport.opt after New: [Flags, Auth]
    buf,        \* SpecClean: the buffer handed to cleanAuth / cleanAuths
    authBuf,    \* SpecClean: the prefix handed to cleanAuth
    out,        \* SpecClean: what the call returned
    out2,       \* SpecClean: what cleanAuth returned when called on out
    cleanPc,    \* SpecClean: which call has been made
    pc,         \* per RoundTrip call: where it stands
    req,        \* per call: the *http.Request it was given
    lines,      \* the calls of opt.Logf so far, in order: [call, format, args]
    reqDump,    \* per call: what httputil.DumpRequestOut returned
    respDump,   \* per call: what httputil.DumpResponse returned
    resp,       \* per call: the named result resp
    err,        \* per call: the named result err
    wire,       \* per call: the calls of t.Transport.RoundTrip: [req, resp, err]
    ret         \* per call: what RoundTrip returned to its caller

config == <<optArg, opt>>
cleanVars == <<buf, authBuf, out, out2, cleanPc>>
tripVars == <<pc, req, lines, reqDump, respDump, resp, err, wire, ret>>
vars == <<optArg, opt, buf, authBuf, out, out2, cleanPc,
          pc, req, lines, reqDump, respDump, resp, err, wire, ret>>

----------------------------------------------------------------------------
(* Bytes *)

NL == 10          \* '\n'
MaskChar == 88    \* 'X'

\* "Authorization: "
AuthorizationPrefix ==
    <<65, 117, 116, 104, 111, 114, 105, 122, 97, 116, 105, 111, 110, 58, 32>>
\* "X-Auth-Token: "
XAuthTokenPrefix ==
    <<88, 45, 65, 117, 116, 104, 45, 84, 111, 107, 101, 110, 58, 32>>

\* var Auth = [][]byte{[]byte("Authorization: "), []byte("X-Auth-Token: ")}
Auth == <<AuthorizationPrefix, XAuthTokenPrefix>>

----------------------------------------------------------------------------
(* Flags *)

DumpHeaders == 1
DumpBodies == 2
DumpRequests == 4
DumpResponses == 8
DumpAuth == 16

\* Go's a & b on non-negative ints.
RECURSIVE And(_, _)
And(a, b) ==
    IF a = 0 \/ b = 0 THEN 0
    ELSE (a % 2) * (b % 2) + 2 * And(a \div 2, b \div 2)

\* Go's a | b on non-negative ints.
RECURSIVE Or(_, _)
Or(a, b) ==
    IF a = 0 THEN b
    ELSE IF b = 0 THEN a
    ELSE (IF a % 2 = 1 \/ b % 2 = 1 THEN 1 ELSE 0) + 2 * Or(a \div 2, b \div 2)

----------------------------------------------------------------------------
(* Options and New *)

\* A [][]byte that is nil, and one that holds elems.
NilSlice == [isNil |-> TRUE, elems |-> <<>>]
Slice(s) == [isNil |-> FALSE, elems |-> s]

\* A nil *Options, and one that points to Options{Flags: f, Auth: a}.
NilOptions == [isNil |-> TRUE, Flags |-> 0, Auth |-> NilSlice]
Options(f, a) == [isNil |-> FALSE, Flags |-> f, Auth |-> a]

\* var DefaultOptions = Options{Flags: DumpHeaders, Logf: log.Printf, Auth: Auth}
DefaultOptions == Options(DumpHeaders, Slice(Auth))

\* New: nil options select DefaultOptions, a nil Auth selects Auth.
\* (Logf, the sink, is the variable lines: every call appends to it.)
New(o) ==
    LET o1 == IF o.isNil THEN DefaultOptions ELSE o
    IN  [Flags |-> o1.Flags,
         Auth  |-> IF o1.Auth.isNil THEN Auth ELSE o1.Auth.elems]

----------------------------------------------------------------------------
(* cleanAuth *)

SearchWindow == 4096
MaskLen == 4

Min(a, b) == IF a < b THEN a ELSE b

\* The least element of a set of indexes, or -1 when there is none.
First(hits) ==
    IF hits = {} THEN -1 ELSE CHOOSE i \in hits : \A j \in hits : i <= j

\* bytes.Index(s, sep): the 0-based index of the first occurrence, or -1.
Index(s, sep) ==
    First({i \in 0..(Len(s) - Len(sep)) :
              \A k \in 1..Len(sep) : s[i + k] = sep[k]})

\* bytes.IndexByte(s, c)
IndexByte(s, c) == First({i \in 0..(Len(s) - 1) : s[i + 1] = c})

\* n := 4096; if len(buf) < n { n = len(buf) }
\* (variant: the whole buffer is searched)
SearchLimitWhole(b) == Len(b)
SearchLimit(b) == IF Len(b) < SearchWindow THEN Len(b) ELSE SearchWindow

\* for j := 0; i < len(buf) && j < 4; j++ { if buf[i] == '\n' { break };
\*     buf[i] = 'X'; i++ }          -- returns <<buf, i>>
\* (variant: the loop without its break at the line feed)
RECURSIVE MaskLoopNoBreak(_, _, _)
MaskLoopNoBreak(b, i, j) ==
    IF i < Len(b) /\ j < MaskLen
    THEN MaskLoopNoBreak([b EXCEPT ![i + 1] = MaskChar], i + 1, j + 1)
    ELSE <<b, i>>
RECURSIVE MaskLoop(_, _, _)
MaskLoop(b, i, j) ==
    IF i < Len(b) /\ j < MaskLen
    THEN IF b[i + 1] = NL
         THEN <<b, i>>
         ELSE MaskLoop([b EXCEPT ![i + 1] = MaskChar], i + 1, j + 1)
    ELSE <<b, i>>

\* copy(b[d:], b[s:]) with s >= d: returns <<b, n>>, n the number of bytes moved.
Copy(b, d, s) ==
    LET n == Min(Len(b) - d, Len(b) - s)
    IN  <<[k \in 1..Len(b) |->
             IF k > d /\ k <= d + n THEN b[s + (k - d)] ELSE b[k]], n>>

\* j := bytes.IndexByte(buf[i:], '\n'); if j < 0 { return buf[:i] }
\* n = copy(buf[i:], buf[i+j:]); return buf[:i+n]
Snip(b, i) ==
    LET j == IndexByte(SubSeq(b, i + 1, Len(b)), NL)
    IN  IF j < 0 THEN SubSeq(b, 1, i)
        ELSE LET c == Copy(b, i, i + j)
             IN  SubSeq(c[1], 1, i + c[2])

\* The body of cleanAuth once the prefix was found at 0-based index i0.
cleanAuthAt(b, a, i0) ==
    LET m == MaskLoop(b, i0 + Len(a), 0)
    IN  Snip(m[1], m[2])

\* (variant: a cleanAuth that goes on to the later occurrences of the prefix)
RECURSIVE cleanAuthEvery(_, _)
cleanAuthEvery(b, a) ==
    LET i0 == Index(SubSeq(b, 1, SearchLimit(b)), a)
    IN  IF i0 < 0 \/ Len(a) = 0 THEN b
        ELSE LET once == cleanAuthAt(b, a, i0)
                 keep == i0 + Len(a)
             IN  SubSeq(once, 1, keep)
                   \o cleanAuthEvery(SubSeq(once, keep + 1, Len(once)), a)

\* func cleanAuth(buf, authBuf []byte) []byte
cleanAuth(b, a) ==
    LET i0 == Index(SubSeq(b, 1, SearchLimit(b)), a)
    IN  IF i0 < 0 THEN b ELSE cleanAuthAt(b, a, i0)

\* for _, authBuf := range t.opt.Auth { buf = cleanAuth(buf, authBuf) }
\* (variant: the loop leaves after its first pass)
cleanAuthsFirstOnly(b, auth) ==
    IF Len(auth) = 0 THEN b ELSE cleanAuth(b, auth[1])
RECURSIVE cleanAuths(_, _)
cleanAuths(b, auth) ==
    IF Len(auth) = 0 THEN b
    ELSE cleanAuths(cleanAuth(b, Head(auth)), Tail(auth))

----------------------------------------------------------------------------
(* SpecClean: cleanAuth and cleanAuths on bounded buffers *)

MaxSegs == 4       \* segments of a buffer built from Segments
MaxPadSegs == 3    \* segments that follow the filler in a long buffer
MaxLines == 4      \* lines of a buffer built from HeaderLines

\* "authorization: " (the prefix in another case)
LowerPrefix ==
    <<97, 117, 116, 104, 111, 114, 105, 122, 97, 116, 105, 111, 110, 58, 32>>
\* "s" and "TOKEN": header values
ShortValue == <<115>>
LongValue == <<84, 79, 75, 69, 78>>
\* "Potato: Help"
OtherHeader == <<80, 111, 116, 97, 116, 111, 58, 32, 72, 101, 108, 112>>
\* "Proxy-"
ProxyDash == <<80, 114, 111, 120, 121, 45>>

\* What a buffer is made of, piece by piece.
Segments ==
    <<AuthorizationPrefix, XAuthTokenPrefix, LowerPrefix,
      ShortValue, LongValue, <<NL>> >>

\* What follows the filler of a long buffer, piece by piece.
PadSegments == <<AuthorizationPrefix, ShortValue, LongValue, <<NL>> >>

\* What a buffer is made of, line by line: "Authorization: TOKENs\n",
\* "Authorization: s\n", "X-Auth-Token: TOKEN\n", "Potato: Help\n",
\* "Proxy-Authorization: s\n".
HeaderLines ==
    <<AuthorizationPrefix \o LongValue \o ShortValue \o <<NL>>,
      AuthorizationPrefix \o ShortValue \o <<NL>>,
      XAuthTokenPrefix \o LongValue \o <<NL>>,
      OtherHeader \o <<NL>>,
      ProxyDash \o AuthorizationPrefix \o ShortValue \o <<NL>> >>

\* Leading filler ('.'), so that what follows sits at the end of the search
\* window: after PadLen bytes "Authorization: " ends exactly at byte 4096.
PadLen == SearchWindow - Len(AuthorizationPrefix)
Pad(n) == [k \in 1..n |-> 46]

RECURSIVE Flatten(_)
Flatten(ss) == IF ss = <<>> THEN <<>> ELSE Head(ss) \o Flatten(Tail(ss))

\* The buffers of at most n pieces of parts.
Built(parts, n) ==
    UNION {{Flatten([k \in 1..m |-> parts[f[k]]]) :
              f \in [1..m -> 1..Len(parts)]} : m \in 0..n}

\* The Auth lists an Options value is given.
AuthOptions == {NilSlice, Slice(<<XAuthTokenPrefix, AuthorizationPrefix>>)}

\* No RoundTrip call is made.
NoTrips ==
    /\ pc = <<>>
    /\ req = <<>>
    /\ lines = <<>>
    /\ reqDump = <<>>
    /\ respDump = <<>>
    /\ resp = <<>>
    /\ err = <<>>
    /\ wire = <<>>
    /\ ret = <<>>

InitClean ==
    /\ \E a \in AuthOptions : optArg = Options(DumpHeaders, a)
    /\ opt = New(optArg)
    /\ \/ buf \in Built(Segments, MaxSegs)
       \/ \E tail \in Built(PadSegments, MaxPadSegs) : buf = Pad(PadLen) \o tail
       \/ buf \in Built(HeaderLines, MaxLines)
    /\ authBuf = <<>>
    /\ out = <<>>
    /\ out2 = <<>>
    /\ cleanPc = "input"
    /\ NoTrips

\* out := cleanAuth(buf, authBuf)
CallCleanAuth ==
    /\ cleanPc = "input"
    /\ NoTrips
    /\ \E k \in 1..Len(opt.Auth) :
          /\ authBuf' = opt.Auth[k]
          /\ out' = cleanAuth(buf, opt.Auth[k])
    /\ cleanPc' = "cleanAuth"
    /\ UNCHANGED <<config, buf, out2, tripVars>>

\* out2 := cleanAuth(out, authBuf)
CallCleanAuthAgain ==
    /\ cleanPc = "cleanAuth"
    /\ out2' = cleanAuth(out, authBuf)
    /\ cleanPc' = "again"
    /\ UNCHANGED <<config, buf, authBuf, out, tripVars>>

\* out := t.cleanAuths(buf)
CallCleanAuths ==
    /\ cleanPc = "input"
    /\ NoTrips
    /\ out' = cleanAuths(buf, opt.Auth)
    /\ cleanPc' = "cleanAuths"
    /\ UNCHANGED <<config, buf, authBuf, out2, tripVars>>

NextClean == CallCleanAuth \/ CallCleanAuthAgain \/ CallCleanAuths

SpecClean == InitClean /\ [][NextClean]_vars

----------------------------------------------------------------------------
(* Transport.RoundTrip *)

MaxFlags == 63     \* Options.Flags ranges over 0..MaxFlags (DumpFlags is an int)

\* SeparatorReq and SeparatorResp: 60 times '>' and 60 times '<'.
SeparatorReq == [k \in 1..60 |-> 62]
SeparatorResp == [k \in 1..60 |-> 60]

\* t.opt.Flags&(DumpHeaders|DumpBodies|DumpAuth|DumpRequests|DumpResponses) != 0
\* (variant: any bit of Flags enables logging)
LoggingEnabledAnyBit(flags) == flags # 0
LoggingEnabled(flags) ==
    And(flags, Or(DumpHeaders, Or(DumpBodies,
                  Or(DumpAuth, Or(DumpRequests, DumpResponses))))) # 0

\* t.opt.Flags&(DumpBodies|DumpRequests) != 0
\* (variant: DumpResponses in the place of DumpRequests)
DumpReqBodySwapped(flags) == And(flags, Or(DumpBodies, DumpResponses)) # 0
DumpReqBody(flags) == And(flags, Or(DumpBodies, DumpRequests)) # 0

\* t.opt.Flags&(DumpBodies|DumpResponses) != 0
DumpRespBody(flags) == And(flags, Or(DumpBodies, DumpResponses)) # 0

\* t.opt.Flags&DumpAuth == 0
\* (variant: DumpAuth is not looked at)
RedactAuthAlways(flags) == TRUE
RedactAuth(flags) == And(flags, DumpAuth) = 0

CRLF == <<13, 10>>
ColonSpace == <<58, 32>>
\* "PUT / HTTP/1.1" and "HTTP/1.1 200 OK"
RequestLine == <<80, 85, 84, 32, 47, 32, 72, 84, 84, 80, 47, 49, 46, 49>>
StatusLine == <<72, 84, 84, 80, 47, 49, 46, 49, 32, 50, 48, 48, 32, 79, 75>>
\* Header names and values: "Authorization", "X-Auth-Token", "Potato",
\* "POTATO", "Help"
AuthorizationName == SubSeq(AuthorizationPrefix, 1, Len(AuthorizationPrefix) - 2)
XAuthTokenName == SubSeq(XAuthTokenPrefix, 1, Len(XAuthTokenPrefix) - 2)
PotatoName == <<80, 111, 116, 97, 116, 111>>
POTATO == <<80, 79, 84, 65, 84, 79>>
Help == <<72, 101, 108, 112>>
\* "Request text" and "Response body\n"
RequestBody == <<82, 101, 113, 117, 101, 115, 116, 32, 116, 101, 120, 116>>
ResponseBody == <<82, 101, 115, 112, 111, 110, 115, 101, 32, 98, 111, 100, 121, 10>>

\* The header lines of a message, as Header.Write writes them.
RECURSIVE WriteHeader(_)
WriteHeader(h) ==
    IF h = <<>> THEN <<>>
    ELSE Head(h)[1] \o ColonSpace \o Head(h)[2] \o CRLF \o WriteHeader(Tail(h))

\* httputil.DumpRequestOut(req, body) when it succeeds: the request line, the
\* header lines, an empty line, and the body when body is set.
DumpRequestOut(r, body) ==
    RequestLine \o CRLF \o WriteHeader(r.header) \o CRLF
        \o (IF body THEN r.body ELSE <<>>)

\* httputil.DumpResponse(resp, body) when it succeeds.
DumpResponse(r, body) ==
    StatusLine \o CRLF \o WriteHeader(r.header) \o CRLF
        \o (IF body THEN r.body ELSE <<>>)

\* The requests a caller makes: the headers and the body.
Requests ==
    {[header |-> << <<AuthorizationName, POTATO>> >>, body |-> RequestBody],
     [header |-> << <<PotatoName, Help>>, <<XAuthTokenName, LongValue>>,
                    <<AuthorizationName, POTATO>> >>, body |-> RequestBody],
     [header |-> << <<PotatoName, Help>> >>, body |-> RequestBody]}

\* The responses the wrapped transport gives.
Responses ==
    {[isNil |-> FALSE, header |-> << <<PotatoName, Help>> >>, body |-> ResponseBody],
     [isNil |-> FALSE,
      header |-> << <<XAuthTokenName, LongValue \o ShortValue>>, <<PotatoName, Help>> >>,
      body |-> ResponseBody]}
NilResponse == [isNil |-> TRUE, header |-> <<>>, body |-> <<>>]

\* error values: nil, what a Dump function fails with, what a dispatch fails with
NilError == "nil"
DumpError == "dump error"
DispatchErrors == {"dial error"}

\* The dump a call holds: none yet, a buffer, or an error.
NoDump == [state |-> "none", buf |-> <<>>, derr |-> NilError]
DumpOf(b) == [state |-> "ok", buf |-> b, derr |-> NilError]
DumpFailed == [state |-> "failed", buf |-> <<>>, derr |-> DumpError]

\* The Options values New is given.
AuthOptions3 == AuthOptions \cup {Slice(<<AuthorizationPrefix>>)}
OptionsArgs ==
    {NilOptions} \cup {Options(f, a) : f \in 0..MaxFlags, a \in AuthOptions3}

\* The RoundTrip calls of the specification Spec: one call on one Transport.
Calls == {1}

NoCleanCalls ==
    /\ buf = <<>>
    /\ authBuf = <<>>
    /\ out = <<>>
    /\ out2 = <<>>
    /\ cleanPc = "none"

\* A Transport made by New, and the calls about to be made on it.
InitTrips(calls) ==
    /\ optArg \in OptionsArgs
    /\ opt = New(optArg)
    /\ pc = [c \in calls |-> "start"]
    /\ req \in [calls -> Requests]
    /\ lines = <<>>
    /\ reqDump = [c \in calls |-> NoDump]
    /\ respDump = [c \in calls |-> NoDump]
    /\ resp = [c \in calls |-> NilResponse]
    /\ err = [c \in calls |-> NilError]
    /\ wire = [c \in calls |-> <<>>]
    /\ ret = [c \in calls |-> [done |-> FALSE, resp |-> NilResponse, err |-> NilError]]

Init == InitTrips(Calls) /\ NoCleanCalls

\* t.opt.Logf(format, args...) by call c
Logf(c, format, args) ==
    lines' = Append(lines, [call |-> c, format |-> format, args |-> args])

\* if flags != 0 { t.opt.Logf("%s", SeparatorReq)
LogReqSeparatorOpen(c) ==
    /\ pc[c] = "start"
    /\ LoggingEnabled(opt.Flags)
    /\ Logf(c, "%s", <<SeparatorReq>>)
    /\ pc' = [pc EXCEPT ![c] = "reqBanner"]
    /\ UNCHANGED <<config, cleanVars, req, reqDump, respDump, resp, err, wire, ret>>

\* the first if of RoundTrip is not taken
SkipReqLog(c) ==
    /\ pc[c] = "start"
    /\ ~LoggingEnabled(opt.Flags)
    /\ pc' = [pc EXCEPT ![c] = "dispatch"]
    /\ UNCHANGED <<config, cleanVars, req, lines, reqDump, respDump, resp, err, wire, ret>>

\* t.opt.Logf("%s (req %p)", "HTTP REQUEST", req)
LogReqBanner(c) ==
    /\ pc[c] = "reqBanner"
    /\ Logf(c, "%s (req %p)", <<"HTTP REQUEST", c>>)
    /\ pc' = [pc EXCEPT ![c] = "reqDump"]
    /\ UNCHANGED <<config, cleanVars, req, reqDump, respDump, resp, err, wire, ret>>

\* buf, derr := httputil.DumpRequestOut(...) with derr == nil:
\* if t.opt.Flags&DumpAuth == 0 { buf = t.cleanAuths(buf) }
\* t.opt.Logf("%s", string(buf))
DumpReqOk(c) ==
    /\ pc[c] = "reqDump"
    /\ LET b == DumpRequestOut(req[c], DumpReqBody(opt.Flags))
       IN  /\ reqDump' = [reqDump EXCEPT ![c] = DumpOf(b)]
           /\ Logf(c, "%s",
                   <<IF RedactAuth(opt.Flags) THEN cleanAuths(b, opt.Auth) ELSE b>>)
    /\ pc' = [pc EXCEPT ![c] = "reqClose"]
    /\ UNCHANGED <<config, cleanVars, req, respDump, resp, err, wire, ret>>

\* derr != nil: t.opt.Logf("Dump request failed: %v", derr)
\* (variant: the call gives up and returns derr)
DumpReqFailAborts(c) ==
    /\ pc[c] = "reqDump"
    /\ reqDump' = [reqDump EXCEPT ![c] = DumpFailed]
    /\ err' = [err EXCEPT ![c] = DumpError]
    /\ Logf(c, "Dump request failed: %v", <<DumpError>>)
    /\ pc' = [pc EXCEPT ![c] = "return"]
    /\ UNCHANGED <<config, cleanVars, req, respDump, resp, wire, ret>>
DumpReqFail(c) ==
    /\ pc[c] = "reqDump"
    /\ reqDump' = [reqDump EXCEPT ![c] = DumpFailed]
    /\ Logf(c, "Dump request failed: %v", <<DumpError>>)
    /\ pc' = [pc EXCEPT ![c] = "reqClose"]
    /\ UNCHANGED <<config, cleanVars, req, respDump, resp, err, wire, ret>>

\* t.opt.Logf("%s", SeparatorReq) }
LogReqSeparatorClose(c) ==
    /\ pc[c] = "reqClose"
    /\ Logf(c, "%s", <<SeparatorReq>>)
    /\ pc' = [pc EXCEPT ![c] = "dispatch"]
    /\ UNCHANGED <<config, cleanVars, req, reqDump, respDump, resp, err, wire, ret>>

\* resp, err = t.Transport.RoundTrip(req), the wrapped transport answering
DispatchOk(c) ==
    /\ pc[c] = "dispatch"
    /\ \E r \in Responses :
          /\ resp' = [resp EXCEPT ![c] = r]
          /\ err' = [err EXCEPT ![c] = NilError]
          /\ wire' = [wire EXCEPT ![c] =
                         Append(@, [req |-> req[c], resp |-> r, err |-> NilError])]
    /\ pc' = [pc EXCEPT ![c] = "dispatched"]
    /\ UNCHANGED <<config, cleanVars, req, lines, reqDump, respDump, ret>>

\* resp, err = t.Transport.RoundTrip(req), the wrapped transport failing
DispatchErr(c) ==
    /\ pc[c] = "dispatch"
    /\ \E e \in DispatchErrors :
          /\ resp' = [resp EXCEPT ![c] = NilResponse]
          /\ err' = [err EXCEPT ![c] = e]
          /\ wire' = [wire EXCEPT ![c] =
                         Append(@, [req |-> req[c], resp |-> NilResponse, err |-> e])]
    /\ pc' = [pc EXCEPT ![c] = "dispatched"]
    /\ UNCHANGED <<config, cleanVars, req, lines, reqDump, respDump, ret>>

\* if flags != 0 { t.opt.Logf("%s", SeparatorResp)
LogRespSeparatorOpen(c) ==
    /\ pc[c] = "dispatched"
    /\ LoggingEnabled(opt.Flags)
    /\ Logf(c, "%s", <<SeparatorResp>>)
    /\ pc' = [pc EXCEPT ![c] = "respBanner"]
    /\ UNCHANGED <<config, cleanVars, req, reqDump, respDump, resp, err, wire, ret>>

\* the second if of RoundTrip is not taken
SkipRespLog(c) ==
    /\ pc[c] = "dispatched"
    /\ ~LoggingEnabled(opt.Flags)
    /\ pc' = [pc EXCEPT ![c] = "return"]
    /\ UNCHANGED <<config, cleanVars, req, lines, reqDump, respDump, resp, err, wire, ret>>

\* t.opt.Logf("%s (req %p)", "HTTP RESPONSE", req)
LogRespBanner(c) ==
    /\ pc[c] = "respBanner"
    /\ Logf(c, "%s (req %p)", <<"HTTP RESPONSE", c>>)
    /\ pc' = [pc EXCEPT ![c] = "respDump"]
    /\ UNCHANGED <<config, cleanVars, req, reqDump, respDump, resp, err, wire, ret>>

\* if err != nil { t.opt.Logf("HTTP request failed: %v", err) }
LogDispatchError(c) ==
    /\ pc[c] = "respDump"
    /\ err[c] # NilError
    /\ Logf(c, "HTTP request failed: %v", <<err[c]>>)
    /\ pc' = [pc EXCEPT ![c] = "respClose"]
    /\ UNCHANGED <<config, cleanVars, req, reqDump, respDump, resp, err, wire, ret>>

\* buf, derr := httputil.DumpResponse(...) with derr == nil:
\* t.opt.Logf("%s", string(buf))
\* (variant: resp is kept in a field of the Transport that the calls share,
\* so that the response dumped is the one some call received)
DumpRespOkShared(c) ==
    /\ pc[c] = "respDump"
    /\ err[c] = NilError
    /\ \E d \in DOMAIN pc :
          /\ ~resp[d].isNil
          /\ LET b == DumpResponse(resp[d], DumpRespBody(opt.Flags))
             IN  /\ respDump' = [respDump EXCEPT ![c] = DumpOf(b)]
                 /\ Logf(c, "%s", <<b>>)
    /\ pc' = [pc EXCEPT ![c] = "respClose"]
    /\ UNCHANGED <<config, cleanVars, req, reqDump, resp, err, wire, ret>>
DumpRespOk(c) ==
    /\ pc[c] = "respDump"
    /\ err[c] = NilError
    /\ LET b == DumpResponse(resp[c], DumpRespBody(opt.Flags))
       IN  /\ respDump' = [respDump EXCEPT ![c] = DumpOf(b)]
           /\ Logf(c, "%s", <<b>>)
    /\ pc' = [pc EXCEPT ![c] = "respClose"]
    /\ UNCHANGED <<config, cleanVars, req, reqDump, resp, err, wire, ret>>

\* derr != nil: t.opt.Logf("Dump response failed: %v", derr)
\* (variant: the failure is assigned to err, not to derr)
DumpRespFailSetsErr(c) ==
    /\ pc[c] = "respDump"
    /\ err[c] = NilError
    /\ respDump' = [respDump EXCEPT ![c] = DumpFailed]
    /\ err' = [err EXCEPT ![c] = DumpError]
    /\ Logf(c, "Dump response failed: %v", <<DumpError>>)
    /\ pc' = [pc EXCEPT ![c] = "respClose"]
    /\ UNCHANGED <<config, cleanVars, req, reqDump, resp, wire, ret>>
DumpRespFail(c) ==
    /\ pc[c] = "respDump"
    /\ err[c] = NilError
    /\ respDump' = [respDump EXCEPT ![c] = DumpFailed]
    /\ Logf(c, "Dump response failed: %v", <<DumpError>>)
    /\ pc' = [pc EXCEPT ![c] = "respClose"]
    /\ UNCHANGED <<config, cleanVars, req, reqDump, resp, err, wire, ret>>

\* t.opt.Logf("%s", SeparatorResp) }
\* (variant: the response section is closed with SeparatorReq)
LogRespSeparatorCloseReq(c) ==
    /\ pc[c] = "respClose"
    /\ Logf(c, "%s", <<SeparatorReq>>)
    /\ pc' = [pc EXCEPT ![c] = "return"]
    /\ UNCHANGED <<config, cleanVars, req, reqDump, respDump, resp, err, wire, ret>>
LogRespSeparatorClose(c) ==
    /\ pc[c] = "respClose"
    /\ Logf(c, "%s", <<SeparatorResp>>)
    /\ pc' = [pc EXCEPT ![c] = "return"]
    /\ UNCHANGED <<config, cleanVars, req, reqDump, respDump, resp, err, wire, ret>>

\* return resp, err
Return(c) ==
    /\ pc[c] = "return"
    /\ ret' = [ret EXCEPT ![c] = [done |-> TRUE, resp |-> resp[c], err |-> err[c]]]
    /\ pc' = [pc EXCEPT ![c] = "done"]
    /\ UNCHANGED <<config, cleanVars, req, lines, reqDump, respDump, resp, err, wire>>

Next ==
    \/ \E c \in DOMAIN pc : LogReqSeparatorOpen(c)
    \/ \E c \in DOMAIN pc : SkipReqLog(c)
    \/ \E c \in DOMAIN pc : LogReqBanner(c)
    \/ \E c \in DOMAIN pc : DumpReqOk(c)
    \/ \E c \in DOMAIN pc : DumpReqFail(c)
    \/ \E c \in DOMAIN pc : LogReqSeparatorClose(c)
    \/ \E c \in DOMAIN pc : DispatchOk(c)
    \/ \E c \in DOMAIN pc : DispatchErr(c)
    \/ \E c \in DOMAIN pc : LogRespSeparatorOpen(c)
    \/ \E c \in DOMAIN pc : SkipRespLog(c)
    \/ \E c \in DOMAIN pc : LogRespBanner(c)
    \/ \E c \in DOMAIN pc : LogDispatchError(c)
    \/ \E c \in DOMAIN pc : DumpRespOk(c)
    \/ \E c \in DOMAIN pc : DumpRespFail(c)
    \/ \E c \in DOMAIN pc : LogRespSeparatorClose(c)
    \/ \E c \in DOMAIN pc : Return(c)

Spec == Init /\ [][Next]_vars

(* RoundTrip called from two goroutines on one Transport.  http.Client makes
   the calls concurrently; each call runs the statements of RoundTrip in
   order on its own req, buf, resp and err, and the steps of the two calls
   interleave in every way.  Both dumps succeed in this specification. *)

\* The two calls.
ConcCalls == {1, 2}

\* The Options of the shared Transport: nothing logged, or headers logged
\* with the default Auth list.
ConcOptionsArgs == {Options(0, NilSlice), Options(DumpHeaders, NilSlice)}

\* The requests of the two calls, one with a secret and one without.
ConcReq ==
    [c \in ConcCalls |->
        IF c = 1
        THEN [header |-> << <<AuthorizationName, POTATO>> >>, body |-> RequestBody]
        ELSE [header |-> << <<PotatoName, Help>> >>, body |-> RequestBody]]

InitConc ==
    /\ InitTrips(ConcCalls)
    /\ optArg \in ConcOptionsArgs
    /\ req = ConcReq
    /\ NoCleanCalls

NextConc ==
    \/ \E c \in DOMAIN pc : LogReqSeparatorOpen(c)
    \/ \E c \in DOMAIN pc : SkipReqLog(c)
    \/ \E c \in DOMAIN pc : LogReqBanner(c)
    \/ \E c \in DOMAIN pc : DumpReqOk(c)
    \/ \E c \in DOMAIN pc : LogReqSeparatorClose(c)
    \/ \E c \in DOMAIN pc : DispatchOk(c)
    \/ \E c \in DOMAIN pc : DispatchErr(c)
    \/ \E c \in DOMAIN pc : LogRespSeparatorOpen(c)
    \/ \E c \in DOMAIN pc : SkipRespLog(c)
    \/ \E c \in DOMAIN pc : LogRespBanner(c)
    \/ \E c \in DOMAIN pc : LogDispatchError(c)
    \/ \E c \in DOMAIN pc : DumpRespOk(c)
    \/ \E c \in DOMAIN pc : LogRespSeparatorClose(c)
    \/ \E c \in DOMAIN pc : Return(c)

SpecConc == InitConc /\ [][NextConc]_vars

----------------------------------------------------------------------------
(* What the claims about cleanAuth speak of, stated without cleanAuth *)

\* The prefix a lies at 0-based offset p of b.
Occurs(b, a, p) ==
    /\ p + Len(a) <= Len(b)
    /\ \A k \in 1..Len(a) : b[p + k] = a[k]

\* The number of leading bytes cleanAuth searches.
Window(b) == IF Len(b) < SearchWindow THEN Len(b) ELSE SearchWindow

\* A complete occurrence of a lies inside the window.
FoundInWindow(b, a) == \E p \in 0..(Window(b) - Len(a)) : Occurs(b, a, p)

\* The offset of the first occurrence inside the window.
FirstPos(b, a) ==
    CHOOSE p \in 0..(Window(b) - Len(a)) :
        Occurs(b, a, p) /\ \A q \in 0..(p - 1) : ~Occurs(b, a, q)

\* The number of bytes from offset v to the next '\n', or to the end of b.
ValueLen(b, v) ==
    CHOOSE L \in 0..(Len(b) - v) :
        /\ \A k \in 1..L : b[v + k] # NL
        /\ v + L = Len(b) \/ b[v + L + 1] = NL

Xs(n) == [k \in 1..n |-> MaskChar]

\* b from 0-based offset p on.
From(b, p) == SubSeq(b, p + 1, Len(b))

\* The value that follows the first occurrence of a in b starts at 0-based
\* offset ValueAt(b, a) and is ValueLen(b, ValueAt(b, a)) bytes long.
ValueAt(b, a) == FirstPos(b, a) + Len(a)

\* Output o is input b with the L bytes at offset v replaced by 4 'X', or by
\* L 'X' when L <= 4, and its length says so.
MaskedAt(b, o, v, L) ==
    LET rest == From(b, v + L)
    IN  /\ L <= 4 =>
            /\ o = SubSeq(b, 1, v) \o Xs(L) \o rest
            /\ Len(o) = Len(b)
        /\ L > 4 =>
            /\ o = SubSeq(b, 1, v) \o Xs(4) \o rest
            /\ Len(o) = Len(b) - (L - 4)
            /\ rest = <<>> => Len(o) = v + 4

\* C1: when the prefix is found, with L the length of the value that follows
\* its first occurrence: for L <= 4 the value is replaced by L 'X' and the
\* length is kept; for L > 4 the value is replaced by 4 'X', its line
\* terminator and the rest follow the mask directly, the length shrinks by
\* L - 4, and with no later line terminator the buffer ends after the mask.
C1_MaskAndSnip ==
    (cleanPc \in {"cleanAuth", "again"} /\ FoundInWindow(buf, authBuf)) =>
        MaskedAt(buf, out, ValueAt(buf, authBuf),
                 ValueLen(buf, ValueAt(buf, authBuf)))

LongValueThenMore(b, o, v, L) ==
    /\ L > 4
    /\ Len(From(b, v + L)) > 1
    /\ Len(o) = Len(b) - (L - 4)

\* A value longer than the mask, with its line terminator and more after it.
C1_Witness ==
    /\ cleanPc = "cleanAuth"
    /\ FoundInWindow(buf, authBuf)
    /\ LongValueThenMore(buf, out, ValueAt(buf, authBuf),
                         ValueLen(buf, ValueAt(buf, authBuf)))

\* The L bytes at offset v reach past the search window and are masked in o.
MaskedPastWindow(b, o, v, L) ==
    v + L > SearchWindow =>
        /\ Len(o) = Len(b) - (L - Min(L, 4))
        /\ SubSeq(o, v + 1, v + Min(L, 4)) = Xs(Min(L, 4))

\* C2: when no complete occurrence of the prefix lies inside the first
\* min(4096, len) bytes the buffer is returned unchanged, also when the prefix
\* occurs later or straddles the window's end; an occurrence inside the window
\* is redacted even when its value extends past the window.
C2_WindowOnly ==
    cleanPc \in {"cleanAuth", "again"} =>
        IF FoundInWindow(buf, authBuf)
        THEN MaskedPastWindow(buf, out, ValueAt(buf, authBuf),
                              ValueLen(buf, ValueAt(buf, authBuf)))
        ELSE out = buf /\ Len(out) = Len(buf)

\* The prefix straddles the end of the window, a value follows it, and the
\* buffer comes back as it was.
C2_Witness ==
    /\ cleanPc = "cleanAuth"
    /\ Len(buf) > SearchWindow
    /\ ~FoundInWindow(buf, authBuf)
    /\ \E p \in (SearchWindow - Len(authBuf) + 1)..(SearchWindow - 1) :
          /\ Occurs(buf, authBuf, p)
          /\ p + Len(authBuf) < Len(buf)
          /\ buf[p + Len(authBuf) + 1] # NL
    /\ out = buf

\* Output o keeps the first v bytes of b and the bytes of b from offset e on.
FrameKept(b, o, v, e) ==
    /\ SubSeq(o, 1, v) = SubSeq(b, 1, v)
    /\ Len(o) >= v + (Len(b) - e)
    /\ From(o, Len(o) - (Len(b) - e)) = From(b, e)

\* C3: one call touches the first occurrence only: the bytes up to and with
\* the prefix, and the bytes from the value's line terminator on, are those of
\* the input, so a later header with the same prefix keeps its value; a second
\* call with the same prefix on the output changes nothing.
C3_FirstOnly ==
    /\ (cleanPc \in {"cleanAuth", "again"} /\ FoundInWindow(buf, authBuf)) =>
          FrameKept(buf, out, ValueAt(buf, authBuf),
                    ValueAt(buf, authBuf) + ValueLen(buf, ValueAt(buf, authBuf)))
    /\ cleanPc = "again" => out2 = out

\* "Authorization: TOKENs\nAuthorization: s\n", cleaned twice: the second
\* header still reads "Authorization: s".
C3_Witness ==
    /\ cleanPc = "again"
    /\ authBuf = AuthorizationPrefix
    /\ buf = HeaderLines[1] \o HeaderLines[2]
    /\ out = AuthorizationPrefix \o Xs(4) \o <<NL>> \o HeaderLines[2]
    /\ out2 = out

\* Each prefix of auth heads exactly one line of b, inside the window, and
\* occurs nowhere else in b.
OneHeaderEach(b, auth) ==
    \A k \in 1..Len(auth) :
        LET occ == {p \in 0..(Len(b) - Len(auth[k])) : Occurs(b, auth[k], p)}
        IN  /\ Cardinality(occ) = 1
            /\ \A p \in occ : /\ p = 0 \/ b[p] = NL
                              /\ p + Len(auth[k]) <= Window(b)

\* b from offset p on, line by line: a line headed by a prefix of auth has its
\* value masked as one cleanAuth call masks it, any other line is kept.
RECURSIVE MaskedLines(_, _, _)
MaskedLines(b, auth, p) ==
    IF p >= Len(b) THEN <<>>
    ELSE LET e == p + ValueLen(b, p)
             next == IF e < Len(b) THEN e + 1 ELSE e
             hit == {k \in 1..Len(auth) : Occurs(b, auth[k], p)}
         IN  IF hit = {}
             THEN SubSeq(b, p + 1, next) \o MaskedLines(b, auth, next)
             ELSE LET a == auth[CHOOSE k \in hit : TRUE]
                      L == e - (p + Len(a))
                  IN  a \o Xs(IF L < 4 THEN L ELSE 4) \o SubSeq(b, e + 1, next)
                        \o MaskedLines(b, auth, next)

\* The first k passes, each on the output of the one before.
RECURSIVE Passes(_, _, _)
Passes(b, auth, k) ==
    IF k = 0 THEN b ELSE cleanAuth(Passes(b, auth, k - 1), auth[k])

----------------------------------------------------------------------------
(* What the claims about RoundTrip speak of *)

\* The Logf calls of call c, in order.
LinesOf(c) == SelectSeq(lines, LAMBDA l : l.call = c)

\* Flag bit (a power of two) is set in flags.
HasFlag(flags, bit) == (flags \div bit) % 2 = 1

\* One of the five DumpFlags is set in flags.
AnyOfFive(flags) ==
    \E bit \in {DumpHeaders, DumpBodies, DumpRequests, DumpResponses, DumpAuth} :
        HasFlag(flags, bit)

\* sub lies somewhere in b.
Contains(b, sub) == \E p \in 0..(Len(b) - Len(sub)) : Occurs(b, sub, p)

\* Message m carries header name: value.
HasHeader(m, name, value) ==
    \E k \in 1..Len(m.header) : m.header[k] = <<name, value>>

\* The block call c logged as the k-th of its lines.
Block(c, k) == LinesOf(c)[k].args[1]

\* C5: when the request serialized, the request block handed to Logf is the
\* serialized request after the cleanAuth passes of the configured prefixes
\* unless DumpAuth is set, and the serialized request itself when it is set: a
\* request with Authorization: POTATO logs "Authorization: XXXX" and no POTATO
\* without DumpAuth, and "Authorization: POTATO" with it.
C5_RequestRedacted ==
    \A c \in DOMAIN pc :
        reqDump[c].state = "ok" =>
            /\ LinesOf(c)[3].format = "%s"
            /\ Block(c, 3) =
                 IF HasFlag(opt.Flags, DumpAuth) THEN reqDump[c].buf
                 ELSE Passes(reqDump[c].buf, opt.Auth, Len(opt.Auth))
            /\ HasHeader(req[c], AuthorizationName, POTATO) =>
                 IF HasFlag(opt.Flags, DumpAuth)
                 THEN Contains(Block(c, 3), AuthorizationPrefix \o POTATO \o CRLF)
                 ELSE /\ Contains(Block(c, 3), AuthorizationPrefix \o Xs(4) \o <<NL>>)
                      /\ ~Contains(Block(c, 3), POTATO)

\* A request with Authorization: POTATO and X-Auth-Token: TOKEN, logged
\* without DumpAuth: both values are masked.
C5_Witness ==
    \E c \in DOMAIN pc :
        /\ reqDump[c].state = "ok"
        /\ ~HasFlag(opt.Flags, DumpAuth)
        /\ opt.Auth = Auth
        /\ HasHeader(req[c], AuthorizationName, POTATO)
        /\ HasHeader(req[c], XAuthTokenName, LongValue)
        /\ Contains(Block(c, 3), AuthorizationPrefix \o Xs(4) \o <<NL>>)
        /\ Contains(Block(c, 3), XAuthTokenPrefix \o Xs(4) \o <<NL>>)
        /\ Block(c, 3) # reqDump[c].buf

\* C6: when the response serialized and DumpAuth is not set, the response
\* block handed to Logf is the serialized response after the cleanAuth passes
\* of the configured prefixes.
C6_ResponseRedacted ==
    \A c \in DOMAIN pc :
        (respDump[c].state = "ok" /\ ~HasFlag(opt.Flags, DumpAuth)) =>
            Block(c, 7) = Passes(respDump[c].buf, opt.Auth, Len(opt.Auth))

\* C7: with Flags = 0 in a non-nil Options no line is ever logged and the
\* request is still delegated; a call logs exactly when one of the five flags
\* is set.
C7_NoFlagsNoLog ==
    \A c \in DOMAIN pc :
        /\ (~optArg.isNil /\ optArg.Flags = 0) =>
              /\ lines = <<>>
              /\ pc[c] = "done" => Len(wire[c]) = 1
        /\ LinesOf(c) # <<>> => AnyOfFive(opt.Flags)
        /\ (pc[c] # "start" /\ AnyOfFive(opt.Flags)) => LinesOf(c) # <<>>

\* Flags = 0, the dispatch failed, the call returned: nothing was logged.
C7_Witness ==
    \E c \in DOMAIN pc :
        /\ ~optArg.isNil
        /\ optArg.Flags = 0
        /\ pc[c] = "done"
        /\ ret[c].err # NilError
        /\ Len(wire[c]) = 1
        /\ lines = <<>>

Repeat(ch, n) == [k \in 1..n |-> ch]

\* C8: with a flag set, a round trip whose dispatch succeeds logs exactly 8
\* lines: 60 '>', the HTTP REQUEST banner, the request block, 60 '>', 60 '<',
\* the HTTP RESPONSE banner with the same identity, the response block, 60 '<'.
C8_EightLines ==
    \A c \in DOMAIN pc :
        (pc[c] = "done" /\ AnyOfFive(opt.Flags) /\ ret[c].err = NilError) =>
            LET l == LinesOf(c)
            IN  /\ Len(l) = 8
                /\ l[1].format = "%s" /\ l[1].args = <<Repeat(62, 60)>>
                /\ l[2].format = "%s (req %p)" /\ l[2].args[1] = "HTTP REQUEST"
                /\ reqDump[c].state = "ok" =>
                      /\ l[3].format = "%s"
                      /\ SubSeq(l[3].args[1], 1, Len(RequestLine)) = RequestLine
                /\ l[4].format = "%s" /\ l[4].args = <<Repeat(62, 60)>>
                /\ l[5].format = "%s" /\ l[5].args = <<Repeat(60, 60)>>
                /\ l[6].format = "%s (req %p)" /\ l[6].args[1] = "HTTP RESPONSE"
                /\ l[6].args[2] = l[2].args[2]
                /\ respDump[c].state = "ok" =>
                      /\ l[7].format = "%s"
                      /\ SubSeq(l[7].args[1], 1, Len(StatusLine)) = StatusLine
                /\ l[8].format = "%s" /\ l[8].args = <<Repeat(60, 60)>>

\* DumpHeaders alone, everything succeeded, 8 lines.
C8_Witness ==
    \E c \in DOMAIN pc :
        /\ pc[c] = "done"
        /\ opt.Flags = DumpHeaders
        /\ ret[c].err = NilError
        /\ reqDump[c].state = "ok"
        /\ respDump[c].state = "ok"
        /\ Len(LinesOf(c)) = 8

\* Block b holds the start line and the name of every header of message m.
HoldsHeaders(b, start, m) ==
    /\ SubSeq(b, 1, Len(start)) = start
    /\ \A k \in 1..Len(m.header) : Contains(b, m.header[k][1] \o ColonSpace)

\* C9: the logged request block holds the request body exactly when
\* DumpBodies or DumpRequests is set, the logged response block holds the
\* response body exactly when DumpBodies or DumpResponses is set, and the
\* headers are in both blocks whatever the flags.
C9_BodiesByFlags ==
    \A c \in DOMAIN pc :
        /\ reqDump[c].state = "ok" =>
              /\ Contains(Block(c, 3), req[c].body) <=>
                    (HasFlag(opt.Flags, DumpBodies) \/ HasFlag(opt.Flags, DumpRequests))
              /\ HoldsHeaders(Block(c, 3), RequestLine, req[c])
        /\ respDump[c].state = "ok" =>
              /\ Contains(Block(c, 7), resp[c].body) <=>
                    (HasFlag(opt.Flags, DumpBodies) \/ HasFlag(opt.Flags, DumpResponses))
              /\ HoldsHeaders(Block(c, 7), StatusLine, resp[c])

\* DumpRequests alone: the request body is logged, the response body is not.
C9_Witness ==
    \E c \in DOMAIN pc :
        /\ opt.Flags = DumpRequests
        /\ reqDump[c].state = "ok"
        /\ respDump[c].state = "ok"
        /\ Contains(Block(c, 3), req[c].body)
        /\ ~Contains(Block(c, 7), resp[c].body)

\* C10: a call delegates to the wrapped transport once, with the request it
\* was given, and returns the response and error that dispatch produced,
\* whatever the flags and whether or not a serialization failed.
C10_Transparent ==
    \A c \in DOMAIN pc :
        /\ Len(wire[c]) <= 1
        /\ ret[c].done <=> pc[c] = "done"
        /\ pc[c] = "done" =>
              /\ Len(wire[c]) = 1
              /\ wire[c][1].req = req[c]
              /\ ret[c].resp = wire[c][1].resp
              /\ ret[c].err = wire[c][1].err

\* The response could not be serialized; the caller gets the response and a
\* nil error.
C10_Witness ==
    \E c \in DOMAIN pc :
        /\ pc[c] = "done"
        /\ respDump[c].state = "failed"
        /\ reqDump[c].state = "failed"
        /\ ~ret[c].resp.isNil
        /\ ret[c].err = NilError

\* A failure has been met by call c: a dump that failed or a dispatch error.
Failed(c) ==
    \/ reqDump[c].state = "failed"
    \/ respDump[c].state = "failed"
    \/ (wire[c] # <<>> /\ err[c] # NilError)

\* The steps a call can take once it has met a failure (every step but the
\* first three, which come before any failure).
AfterFailure(c) ==
    \/ LogReqSeparatorClose(c)
    \/ DispatchOk(c)
    \/ DispatchErr(c)
    \/ LogRespSeparatorOpen(c)
    \/ SkipRespLog(c)
    \/ LogRespBanner(c)
    \/ LogDispatchError(c)
    \/ DumpRespOk(c)
    \/ DumpRespFail(c)
    \/ LogRespSeparatorClose(c)
    \/ Return(c)

\* C11: with logging enabled a failure is logged as one line in the place
\* of the dump and the call goes on: after a failed request dump the third
\* line is the failure line, the closing separator follows and the dispatch
\* is made; after a failed dispatch the response section is separator,
\* banner, failure line, separator, no response is serialized and the
\* dispatch error is returned; after a failed response dump the seventh line
\* is the failure line and the closing separator follows.  A call that has
\* met a failure and has not returned always has a next step.
C11_FailuresLogged ==
    \A c \in DOMAIN pc :
        /\ (pc[c] # "done" /\ Failed(c)) => ENABLED AfterFailure(c)
        /\ (pc[c] = "done" /\ AnyOfFive(opt.Flags)) =>
              LET l == LinesOf(c)
              IN  /\ Len(l) = 8
                  /\ Len(wire[c]) = 1
                  /\ reqDump[c].state # "none"
                  /\ reqDump[c].state = "failed" =>
                        /\ l[3] = [call |-> c, format |-> "Dump request failed: %v",
                                   args |-> <<reqDump[c].derr>>]
                        /\ l[4].args = <<Repeat(62, 60)>>
                  /\ wire[c][1].err # NilError =>
                        /\ l[5].args = <<Repeat(60, 60)>>
                        /\ l[6].args[1] = "HTTP RESPONSE"
                        /\ l[7] = [call |-> c, format |-> "HTTP request failed: %v",
                                   args |-> <<wire[c][1].err>>]
                        /\ l[8].args = <<Repeat(60, 60)>>
                        /\ respDump[c].state = "none"
                        /\ ret[c].err = wire[c][1].err
                  /\ respDump[c].state = "failed" =>
                        /\ l[7] = [call |-> c, format |-> "Dump response failed: %v",
                                   args |-> <<respDump[c].derr>>]
                        /\ l[8].args = <<Repeat(60, 60)>>

\* The request could not be serialized and the dispatch failed: two failure
\* lines among the 8, and the dispatch error returned.
C11_Witness ==
    \E c \in DOMAIN pc :
        /\ pc[c] = "done"
        /\ reqDump[c].state = "failed"
        /\ ret[c].err \in DispatchErrors
        /\ Len(LinesOf(c)) = 8
        /\ LinesOf(c)[3].format = "Dump request failed: %v"
        /\ LinesOf(c)[7].format = "HTTP request failed: %v"

\* The Transports of the concurrent calls.
ConcOpts == {New(a) : a \in ConcOptionsArgs}

\* The request block of request r under options o.
ReqBlocks ==
    [o \in ConcOpts, r \in Requests |->
        LET b == DumpRequestOut(r, DumpReqBody(o.Flags))
        IN  IF HasFlag(o.Flags, DumpAuth) THEN b ELSE cleanAuths(b, o.Auth)]

\* The response block of response r under options o, as RoundTrip logs it.
RespBlocks ==
    [o \in ConcOpts, r \in Responses |-> DumpResponse(r, DumpRespBody(o.Flags))]

\* The k-th line of call c, told from its own request, its own dumps and what
\* the wrapped transport gave it (wire[c][1], for k > 4).
OwnLine(c, k) ==
    CASE k = 1 -> [call |-> c, format |-> "%s", args |-> <<SeparatorReq>>]
      [] k = 2 -> [call |-> c, format |-> "%s (req %p)", args |-> <<"HTTP REQUEST", c>>]
      [] k = 3 -> IF reqDump[c].state = "failed"
                  THEN [call |-> c, format |-> "Dump request failed: %v",
                        args |-> <<DumpError>>]
                  ELSE [call |-> c, format |-> "%s",
                        args |-> <<ReqBlocks[opt, req[c]]>>]
      [] k = 4 -> [call |-> c, format |-> "%s", args |-> <<SeparatorReq>>]
      [] k = 5 -> [call |-> c, format |-> "%s", args |-> <<SeparatorResp>>]
      [] k = 6 -> [call |-> c, format |-> "%s (req %p)", args |-> <<"HTTP RESPONSE", c>>]
      [] k = 7 -> IF wire[c][1].err # NilError
                  THEN [call |-> c, format |-> "HTTP request failed: %v",
                        args |-> <<wire[c][1].err>>]
                  ELSE IF respDump[c].state = "failed"
                  THEN [call |-> c, format |-> "Dump response failed: %v",
                        args |-> <<DumpError>>]
                  ELSE [call |-> c, format |-> "%s",
                        args |-> <<RespBlocks[opt, wire[c][1].resp]>>]
      [] k = 8 -> [call |-> c, format |-> "%s", args |-> <<SeparatorResp>>]

\* What holds of call c in every state of the concurrent calls.
OwnLinesInOrder(c) ==
    LET l == LinesOf(c)
    IN  /\ Len(l) <= 8
        /\ \A k \in 1..Len(l) : l[k] = OwnLine(c, k)
        /\ wire[c] = <<>> => Len(l) <= 4
        /\ wire[c] # <<>> => /\ Len(wire[c]) = 1
                             /\ wire[c][1].req = req[c]
                             /\ Len(l) >= (IF AnyOfFive(opt.Flags) THEN 4 ELSE 0)
        /\ pc[c] = "done" => Len(l) = (IF AnyOfFive(opt.Flags) THEN 8 ELSE 0)

\* C12: two round trips running concurrently on one Transport, under every
\* interleaving of their steps: the lines of a call are its 4 request lines
\* then its 4 response lines in order, none of the response lines before its
\* own dispatch has returned and all of the request lines before it started;
\* each line is what the call's own request and own dispatch result give,
\* whatever the other call holds; and no step changes the Options of the
\* Transport, which stay what New made of its argument.
C12_ConcurrentCalls ==
    /\ [](opt = New(optArg) /\ \A c \in DOMAIN pc : OwnLinesInOrder(c))
    /\ [][opt' = opt /\ optArg' = optArg]_vars

\* Both calls have returned, their lines alternate at the start and at the
\* end of the log, call 1 got a dispatch error and call 2 the response that
\* carries a token.
C12_Witness ==
    /\ DOMAIN pc = ConcCalls
    /\ pc[1] = "done" /\ pc[2] = "done"
    /\ Len(lines) = 16
    /\ lines[1].call = 1 /\ lines[2].call = 2
    /\ lines[15].call = 1 /\ lines[16].call = 2
    /\ ret[1].err \in DispatchErrors
    /\ ret[2].err = NilError
    /\ HasHeader(ret[2].resp, XAuthTokenName, LongValue \o ShortValue)

=============================================================================
